---- MODULE Spec2Model ----
(***************************************************************************)
(* Model of msgpack.hpp: the Packer (values -> MessagePack bytes), the     *)
(* Unpacker (bytes -> Object tree) and the Object model.                   *)
(*                                                                         *)
(* Integers of the C++ code are kept at their width.  A C++ integer of w   *)
(* bytes is a "word": a sequence of w bytes, least significant byte first, *)
(* in two's complement.  The order in which a word travels on the stream   *)
(* is decided by the host byte order (Packer::write and Unpacker::read     *)
(* copy the object representation).  Type widths are those of an LP64      *)
(* build: char 1, short 2, int 4, long 8, size_t 8; plain char is signed.  *)
(***************************************************************************)
EXTENDS Integers, Sequences, FiniteSets

(***************************************************************************)
(* Bounds of the model.                                                    *)
(***************************************************************************)
\* number of values packed back-to-back into one stream
MaxValues == 2
\* number of Unpacker::unpack calls on one stream
MaxUnpacks == 3
\* longest prefix kept by a truncation (shorter streams are cut anywhere)
MaxCut == 12

(***************************************************************************)
(* namespace bm: the tag bytes and the helper bit masks.                   *)
(***************************************************************************)
MP_INT8 == 208
MP_INT16 == 209
MP_INT32 == 210
MP_INT64 == 211
MP_UINT8 == 204
MP_UINT16 == 205
MP_UINT32 == 206
MP_UINT64 == 207
MP_FIXNUM == 0
MP_NEGATIVE_FIXNUM == 224
MP_NULL == 192
MP_FALSE == 194
MP_TRUE == 195
MP_FLOAT == 202
MP_DOUBLE == 203
MP_RAW16 == 218
MP_RAW32 == 219
MP_FIXRAW == 160
MP_ARRAY16 == 220
MP_ARRAY32 == 221
MP_FIXARRAY == 144
MP_MAP16 == 222
MP_MAP32 == 223
MP_FIXMAP == 128
MAX_4BIT == 15
MAX_5BIT == 31
MAX_7BIT == 127
MAX_8BIT == 255
MAX_15BIT == 32767
MAX_16BIT == 65535
MAX_31BIT == 2147483647
\* static const long MAX_32BIT = 0xffffffffL, as a long word
MAX_32BIT == <<255, 255, 255, 255, 0, 0, 0, 0>>

(***************************************************************************)
(* Bytes, bit operations and words.                                        *)
(***************************************************************************)
Byte == 0..255

RECURSIVE BitAndN(_, _, _)
BitAndN(a, b, n) ==
    IF n = 0 THEN 0
    ELSE (a % 2) * (b % 2) + 2 * BitAndN(a \div 2, b \div 2, n - 1)

\* a & b on bytes
BitAnd(a, b) == BitAndN(a, b, 8)

RECURSIVE BitOrN(_, _, _)
BitOrN(a, b, n) ==
    IF n = 0 THEN 0
    ELSE (IF a % 2 = 1 \/ b % 2 = 1 THEN 1 ELSE 0)
         + 2 * BitOrN(a \div 2, b \div 2, n - 1)

\* a | b on bytes
BitOr(a, b) == BitOrN(a, b, 8)

Reverse(s) == [i \in 1..Len(s) |-> s[Len(s) + 1 - i]]

Pow256(k) == IF k = 0 THEN 1 ELSE IF k = 1 THEN 256
             ELSE IF k = 2 THEN 65536 ELSE 16777216

\* the w-byte two's complement word of an int-sized number n
Word(n, w) ==
    [i \in 1..w |-> IF i <= 4 THEN (n \div Pow256(i - 1)) % 256
                    ELSE IF n < 0 THEN 255 ELSE 0]

\* integral conversion of word v to a type of w bytes: truncation, or sign
\* extension (signed source) or zero extension (unsigned source)
Resize(v, w, isSigned) ==
    [i \in 1..w |-> IF i <= Len(v) THEN v[i]
                    ELSE IF isSigned /\ v[Len(v)] >= 128 THEN 255 ELSE 0]

\* the number held by a word of at most 4 bytes, read as signed or unsigned
\* (an unsigned 4-byte word above INT_MAX does not fit a 32-bit integer and
\* is never asked for)
WordToInt(v, isSigned) ==
    LET x == Resize(v, 4, isSigned)
        top == IF isSigned /\ x[4] >= 128 THEN x[4] - 256 ELSE x[4]
    IN  x[1] + 256 * x[2] + 65536 * x[3] + 16777216 * top

\* signed comparison a <= b of two long words
SignedKey(v) == [i \in 1..Len(v) |->
                    IF i = 1 THEN (v[Len(v)] + 128) % 256
                    ELSE v[Len(v) + 1 - i]]

LexLE(x, y) ==
    \/ x = y
    \/ \E i \in 1..Len(x) :
          /\ x[i] < y[i]
          /\ \A j \in 1..(i - 1) : x[j] = y[j]

LongLE(a, b) == LexLE(SignedKey(a), SignedKey(b))

\* an int-sized number as a long
Long(n) == Word(n, 8)

(***************************************************************************)
(* Packer.                                                                 *)
(***************************************************************************)
\* Packer::write<T>(data): sizeof(T) = w bytes of the object representation,
\* in host order
Write(v, w, big) ==
    LET t == Resize(v, w, TRUE) IN IF big THEN Reverse(t) ELSE t

\* pack(long) with the negative fixnum test written as value >= -MAX_5BIT
PackLongShortFixnum(value, big) ==
    IF LongLE(Long(0), value)
    THEN IF LongLE(value, Long(MAX_7BIT))
         THEN <<BitOr(value[1], MP_FIXNUM)>>
         ELSE IF LongLE(value, Long(MAX_8BIT))
         THEN <<MP_UINT8>> \o Write(value, 1, big)
         ELSE IF LongLE(value, Long(MAX_16BIT))
         THEN <<MP_UINT16>> \o Write(value, 2, big)
         ELSE IF LongLE(value, MAX_32BIT)
         THEN <<MP_UINT32>> \o Write(value, 4, big)
         ELSE <<MP_UINT64>> \o Write(value, 8, big)
    ELSE IF LongLE(Long(-MAX_5BIT), value)
         THEN <<BitOr(value[1], MP_NEGATIVE_FIXNUM)>>
         ELSE IF LongLE(Long(-(MAX_7BIT + 1)), value)
         THEN <<MP_INT8>> \o Write(value, 1, big)
         ELSE IF LongLE(Long(-(MAX_15BIT + 1)), value)
         THEN <<MP_INT16>> \o Write(value, 2, big)
         ELSE IF LongLE(Long(-MAX_31BIT - 1), value)
         THEN <<MP_INT32>> \o Write(value, 4, big)
         ELSE <<MP_INT64>> \o Write(value, 8, big)

\* Packer::pack(long value)
PackLong(value, big) ==
    IF LongLE(Long(0), value)
    THEN IF LongLE(value, Long(MAX_7BIT))
         THEN <<BitOr(value[1], MP_FIXNUM)>>
         ELSE IF LongLE(value, Long(MAX_8BIT))
         THEN <<MP_UINT8>> \o Write(value, 1, big)
         ELSE IF LongLE(value, Long(MAX_16BIT))
         THEN <<MP_UINT16>> \o Write(value, 2, big)
         ELSE IF LongLE(value, MAX_32BIT)
         THEN <<MP_UINT32>> \o Write(value, 4, big)
         ELSE <<MP_UINT64>> \o Write(value, 8, big)
    ELSE IF LongLE(Long(-(MAX_5BIT + 1)), value)
         THEN <<BitOr(value[1], MP_NEGATIVE_FIXNUM)>>
         ELSE IF LongLE(Long(-(MAX_7BIT + 1)), value)
         THEN <<MP_INT8>> \o Write(value, 1, big)
         ELSE IF LongLE(Long(-(MAX_15BIT + 1)), value)
         THEN <<MP_INT16>> \o Write(value, 2, big)
         ELSE IF LongLE(Long(-MAX_31BIT - 1), value)
         THEN <<MP_INT32>> \o Write(value, 4, big)
         ELSE <<MP_INT64>> \o Write(value, 8, big)

\* pack(data, length) with the fixraw test written as length < MAX_5BIT
PackDataShortFixraw(data, length, big) ==
    (IF length < MAX_5BIT
     THEN <<BitOr(length % 256, MP_FIXRAW)>>
     ELSE IF length <= MAX_16BIT
     THEN <<MP_RAW16>> \o Write(Long(length), 2, big)
     ELSE <<MP_RAW32>> \o Write(Long(length), 4, big))
    \o SubSeq(data, 1, length)

\* Packer::pack(const char* data, std::size_t length): the header for length
\* and then the first length bytes of data
PackData(data, length, big) ==
    (IF length <= MAX_5BIT
     THEN <<BitOr(length % 256, MP_FIXRAW)>>
     ELSE IF length <= MAX_16BIT
     THEN <<MP_RAW16>> \o Write(Long(length), 2, big)
     ELSE <<MP_RAW32>> \o Write(Long(length), 4, big))
    \o SubSeq(data, 1, length)

\* strlen(item): the bytes before the first zero byte (c_str() ends in one)
StrLen(item) ==
    IF \E i \in 1..Len(item) : item[i] = 0
    THEN (CHOOSE i \in 1..Len(item) :
             item[i] = 0 /\ \A j \in 1..(i - 1) : item[j] # 0) - 1
    ELSE Len(item)

\* Packer::pack(const std::basic_string<char>&) -> pack(value.c_str())
\* -> Packer::pack(const char* item) -> pack(item, strlen(item))
PackString(value, big) == PackData(value, StrLen(value), big)

\* Packer::initContainer(length, T&)
InitContainerArray(length, big) ==
    IF length <= MAX_4BIT
    THEN <<BitOr(length % 256, MP_FIXARRAY)>>
    ELSE IF length <= MAX_16BIT
    THEN <<MP_ARRAY16>> \o Write(Long(length), 2, big)
    ELSE <<MP_ARRAY32>> \o Write(Long(length), 4, big)

\* Packer::initContainer(length, std::pair<const val, key>&)
InitContainerMap(length, big) ==
    IF length <= MAX_4BIT
    THEN <<BitOr(length % 256, MP_FIXMAP)>>
    ELSE IF length <= MAX_16BIT
    THEN <<MP_MAP16>> \o Write(Long(length), 2, big)
    ELSE <<MP_MAP32>> \o Write(Long(length), 4, big)

(***************************************************************************)
(* The values an application hands to the Packer.  k is the static type:   *)
(* "long", "data" (pointer and length), "string" (std::string), "array" (a *)
(* sequence container), "map" (a container of pairs) and "pair".  A        *)
(* container holds its elems sequence rep times over; rep is above 1 only  *)
(* for bulk containers such as std::vector<long>(32768, 0).                *)
(***************************************************************************)
AppLong(w) == [k |-> "long", num |-> w, bytes |-> <<>>, elems |-> <<>>,
               rep |-> 1]
AppData(b) == [k |-> "data", num |-> <<>>, bytes |-> b, elems |-> <<>>,
               rep |-> 1]
AppString(b) == [k |-> "string", num |-> <<>>, bytes |-> b, elems |-> <<>>,
                 rep |-> 1]
AppArray(es) == [k |-> "array", num |-> <<>>, bytes |-> <<>>, elems |-> es,
                 rep |-> 1]
AppPair(x, y) == [k |-> "pair", num |-> <<>>, bytes |-> <<>>,
                  elems |-> <<x, y>>, rep |-> 1]
AppMap(ps) == [k |-> "map", num |-> <<>>, bytes |-> <<>>, elems |-> ps,
               rep |-> 1]
AppBulk(v, n) == [v EXCEPT !.rep = n]

\* a scalar of static type t ("bool", "char", "short", "int", "uchar" or
\* "ushort"; "long" is AppLong) whose object representation is word w
AppScalar(t, w) == [k |-> t, num |-> w, bytes |-> <<>>, elems |-> <<>>,
                    rep |-> 1]

\* the scalar types for which both packer << v and unpacker >> v compile:
\* an unsigned int or unsigned long argument makes the call of pack
\* ambiguous, and type_cast has no entry for signed char
ScalarTypes == {"bool", "char", "short", "int", "long", "uchar", "ushort"}

\* sizeof(T), and whether T is signed (char is, on the hosts modelled)
SizeOf(t) ==
    CASE t \in {"bool", "char", "uchar"} -> 1
      [] t \in {"short", "ushort"} -> 2
      [] t = "int" -> 4
      [] OTHER -> 8

IsSignedType(t) == t \in {"char", "short", "int", "long"}

\* detail::type_cast<T>::id
TypeCastId(t) ==
    CASE t = "bool" -> "BOOLEAN"
      [] t = "char" -> "CHAR"
      [] t = "short" -> "SHORT"
      [] t = "int" -> "INTEGER"
      [] t = "long" -> "LONG"
      [] t = "uchar" -> "UCHAR"
      [] OTHER -> "USHORT"

\* Packer::pack(bool item)
PackBool(item) == IF item = <<0>> THEN <<MP_FALSE>> ELSE <<MP_TRUE>>

\* std::distance(first, last) and the i-th element of the iteration
Distance(v) == v.rep * Len(v.elems)
ElemAt(v, i) == v.elems[((i - 1) % Len(v.elems)) + 1]

\* the bytes b written n times over
RepeatSeq(b, n) == [i \in 1..(n * Len(b)) |-> b[((i - 1) % Len(b)) + 1]]

RECURSIVE PackValue(_, _)
RECURSIVE PackElems(_, _, _, _)

\* the loop "for (; first != last; ++first) pack(*first);" of
\* Packer::pack(IteratorT, IteratorT): the encodings of es[lo..hi] in
\* iteration order (the concatenation is split in halves to keep the
\* evaluation shallow)
PackElems(es, lo, hi, big) ==
    IF lo > hi THEN <<>>
    ELSE IF lo = hi THEN PackValue(es[lo], big)
    ELSE LET mid == (lo + hi) \div 2
         IN  PackElems(es, lo, mid, big) \o PackElems(es, mid + 1, hi, big)

\* Packer::pack(IteratorT first, IteratorT last)
PackRange(v, big) ==
    (IF v.k = "map" THEN InitContainerMap(Distance(v), big)
     ELSE InitContainerArray(Distance(v), big))
    \o RepeatSeq(PackElems(v.elems, 1, Len(v.elems), big), v.rep)

\* Packer::pack(const std::pair<const keyT, valT>&)
PackPair(v, big) == PackValue(v.elems[1], big) \o PackValue(v.elems[2], big)

\* Packer::pack(int item), also chosen for char, short, unsigned char and
\* unsigned short arguments by integral promotion
PackInt(v, big) == PackLong(Resize(v.num, 8, IsSignedType(v.k)), big)

\* overload resolution of Packer::pack on the static type of the value
PackValue(v, big) ==
    CASE v.k = "long" -> PackLong(v.num, big)
      [] v.k = "bool" -> PackBool(v.num)
      [] v.k \in {"char", "short", "int", "uchar", "ushort"} ->
            PackInt(v, big)
      [] v.k = "data" -> PackData(v.bytes, Len(v.bytes), big)
      [] v.k = "string" -> PackString(v.bytes, big)
      [] v.k = "pair" -> PackPair(v, big)
      [] OTHER -> PackRange(v, big)

(***************************************************************************)
(* Object: the decoded value.  type is Object::type_ ("null" is the null   *)
(* pointer, no Object at all); val is the scalar value_ as a word, or the  *)
(* bytes of a RAW buffer; size is ObjectImpl<RAW>::size_; kids is the      *)
(* std::list of an ARRAY; pairs holds the (key, value) entries of a MAP in *)
(* the order of the insert calls (the std::multimap is ordered by the      *)
(* address of the key Object, which no claim observes).                    *)
(***************************************************************************)
Obj(t, v) == [type |-> t, val |-> v, size |-> 0, kids |-> <<>>,
              pairs |-> <<>>]
NullObj == Obj("null", <<>>)
RawObj(data, n) == [type |-> "RAW", val |-> data, size |-> n,
                    kids |-> <<>>, pairs |-> <<>>]
ArrayObj(ks) == [type |-> "ARRAY", val |-> <<>>, size |-> 0, kids |-> ks,
                 pairs |-> <<>>]
MapObj(ps) == [type |-> "MAP", val |-> <<>>, size |-> 0, kids |-> <<>>,
               pairs |-> ps]

(***************************************************************************)
(* Unpacker.  A call works on the bytes s of the stream from read position *)
(* p and yields: obj, the pointer returned (NullObj for 0); pos, the read  *)
(* position afterwards; thrown, whether unpack_exception left the call;    *)
(* live, the heap blocks (Objects and raw buffers) the call allocated and  *)
(* did not release; bad, whether the call read a header byte that matches  *)
(* no tag, no masked range and not the fixnum range.                       *)
(***************************************************************************)
\* the switch (value) of Unpacker::unpack: the exact tags
ExactTag(value) ==
    IF value = MP_NULL THEN "nil"
    ELSE IF value = MP_FALSE THEN "false"
    ELSE IF value = MP_TRUE THEN "true"
    ELSE IF value = MP_FLOAT THEN "float32"
    ELSE IF value = MP_DOUBLE THEN "float64"
    ELSE IF value = MP_UINT8 THEN "uint8"
    ELSE IF value = MP_UINT16 THEN "uint16"
    ELSE IF value = MP_UINT32 THEN "uint32"
    ELSE IF value = MP_UINT64 THEN "uint64"
    ELSE IF value = MP_INT8 THEN "int8"
    ELSE IF value = MP_INT16 THEN "int16"
    ELSE IF value = MP_INT32 THEN "int32"
    ELSE IF value = MP_INT64 THEN "int64"
    ELSE IF value = MP_ARRAY16 THEN "array16"
    ELSE IF value = MP_ARRAY32 THEN "array32"
    ELSE IF value = MP_MAP16 THEN "map16"
    ELSE IF value = MP_MAP32 THEN "map32"
    ELSE IF value = MP_RAW16 THEN "raw16"
    ELSE IF value = MP_RAW32 THEN "raw32"
    ELSE "none"

\* the cascade with the fixraw test masked by 0xF0 instead of 0xE0
MaskedKindNarrowRaw(value) ==
    IF BitAnd(value, 240) = MP_FIXRAW THEN "fixraw"
    ELSE IF BitAnd(value, 224) = MP_NEGATIVE_FIXNUM THEN "negfixnum"
    ELSE IF BitAnd(value, 240) = MP_FIXARRAY THEN "fixarray"
    ELSE IF BitAnd(value, 240) = MP_FIXMAP THEN "fixmap"
    ELSE IF value <= 127 THEN "fixnum"
    ELSE "none"

\* the if cascade after the switch: the masked ranges, in source order
MaskedKind(value) ==
    IF BitAnd(value, 224) = MP_FIXRAW THEN "fixraw"
    ELSE IF BitAnd(value, 224) = MP_NEGATIVE_FIXNUM THEN "negfixnum"
    ELSE IF BitAnd(value, 240) = MP_FIXARRAY THEN "fixarray"
    ELSE IF BitAnd(value, 240) = MP_FIXMAP THEN "fixmap"
    ELSE IF value <= 127 THEN "fixnum"
    ELSE "none"

\* the branch Unpacker::unpack takes on header byte value
HeaderKind(value) ==
    IF ExactTag(value) # "none" THEN ExactTag(value) ELSE MaskedKind(value)

\* Unpacker::read(T&) with sizeof(T) = w finds w bytes after position p
CanRead(s, p, w) == p + w <= Len(s)

\* the value Unpacker::read(T&) stores: w bytes taken in host order
ReadWord(s, p, w, big) ==
    LET t == SubSeq(s, p + 1, p + w) IN IF big THEN Reverse(t) ELSE t

Returned(o, p, n, b) == [obj |-> o, pos |-> p, thrown |-> FALSE,
                         live |-> n, bad |-> b]

\* read() meets the end of the stream: the stream is drained and
\* unpack_exception is thrown; n blocks of the call stay allocated
Thrown(s, n, b) == [obj |-> NullObj, pos |-> Len(s), thrown |-> TRUE,
                    live |-> n, bad |-> b]

\* the scalar cases of the switch: read(xVal); return new X(xVal);
UnpackScalar(s, p, t, w, big) ==
    IF CanRead(s, p, w)
    THEN Returned(Obj(t, ReadWord(s, p, w, big)), p + w, 1, FALSE)
    ELSE Thrown(s, 0, FALSE)

\* Unpacker::unpackRaw(int size)
UnpackRaw(s, p, size) ==
    IF size < 0 THEN Returned(NullObj, p, 0, FALSE)
    ELSE IF CanRead(s, p, size)
    THEN Returned(RawObj(SubSeq(s, p + 1, p + size), size), p + size, 2,
                  FALSE)
    ELSE Thrown(s, 1, FALSE)

RECURSIVE Unpack(_, _, _, _)
RECURSIVE ListLoop(_, _, _, _, _, _, _, _)
RECURSIVE MapLoop(_, _, _, _, _, _, _, _)

\* the for loop of unpackList with left iterations to go: ret->add(unpack())
ListLoop(s, p, left, kids, live, bad, big, g) ==
    IF left = 0 THEN Returned(ArrayObj(kids), p, live, bad)
    ELSE LET r == Unpack(s, p, big, g)
         IN  IF r.thrown THEN Thrown(s, live + r.live, bad \/ r.bad)
             ELSE ListLoop(s, r.pos, left - 1, Append(kids, r.obj),
                           live + r.live, bad \/ r.bad, big, g)

\* Unpacker::unpackList(int size)
UnpackList(s, p, size, big, g) ==
    IF size < 0 THEN Returned(NullObj, p, 0, FALSE)
    ELSE ListLoop(s, p, size, <<>>, 1, FALSE, big, g)

\* the for loop of unpackMap: key = unpack(); val = unpack(); insert
MapLoop(s, p, left, pairs, live, bad, big, g) ==
    IF left = 0 THEN Returned(MapObj(pairs), p, live, bad)
    ELSE LET key == Unpack(s, p, big, g)
         IN  IF key.thrown THEN Thrown(s, live + key.live, bad \/ key.bad)
             ELSE LET val == Unpack(s, key.pos, big, g)
                  IN  IF val.thrown
                      THEN Thrown(s, live + key.live + val.live,
                                  bad \/ key.bad \/ val.bad)
                      ELSE MapLoop(s, val.pos, left - 1,
                                   Append(pairs, [key |-> key.obj,
                                                  val |-> val.obj]),
                                   live + key.live + val.live,
                                   bad \/ key.bad \/ val.bad, big, g)

\* Unpacker::unpackMap(int size)
UnpackMap(s, p, size, big, g) ==
    IF size < 0 THEN Returned(NullObj, p, 0, FALSE)
    ELSE MapLoop(s, p, size, <<>>, 1, FALSE, big, g)

\* a length or count field: read(xVal) of w bytes, converted to the int
\* parameter of unpackList / unpackMap / unpackRaw
CountField(s, p, w, isSigned, big) ==
    WordToInt(ReadWord(s, p, w, big), isSigned)

\* Unpacker::unpack(); g is the indeterminate content of the local iVal,
\* which case MP_INT32 uses without ever writing it
Unpack(s, p, big, g) ==
    IF ~CanRead(s, p, 1) THEN Thrown(s, 0, FALSE)
    ELSE
    LET value == s[p + 1]
        q == p + 1
        kind == HeaderKind(value)
    IN  CASE kind = "nil" -> Returned(Obj("NIL", <<>>), q, 1, FALSE)
          [] kind = "false" ->
                Returned(Obj("BOOLEAN", <<0>>), q, 1, FALSE)
          [] kind = "true" ->
                Returned(Obj("BOOLEAN", <<1>>), q, 1, FALSE)
          [] kind = "float32" -> UnpackScalar(s, q, "FLOAT", 4, big)
          [] kind = "float64" -> UnpackScalar(s, q, "DOUBLE", 8, big)
          [] kind = "uint8" -> UnpackScalar(s, q, "UCHAR", 1, big)
          [] kind = "uint16" -> UnpackScalar(s, q, "USHORT", 2, big)
          [] kind = "uint32" -> UnpackScalar(s, q, "UINTEGER", 4, big)
          [] kind = "uint64" -> UnpackScalar(s, q, "ULONG", 8, big)
          [] kind = "int8" -> UnpackScalar(s, q, "CHAR", 1, big)
          [] kind = "int16" -> UnpackScalar(s, q, "SHORT", 2, big)
          [] kind = "int32" ->
                \* read(uiVal); return new Int(iVal);
                IF CanRead(s, q, 4)
                THEN Returned(Obj("INTEGER", g), q + 4, 1, FALSE)
                ELSE Thrown(s, 0, FALSE)
          [] kind = "int64" -> UnpackScalar(s, q, "LONG", 8, big)
          [] kind = "array16" ->
                IF CanRead(s, q, 2)
                THEN UnpackList(s, q + 2, CountField(s, q, 2, TRUE, big),
                                big, g)
                ELSE Thrown(s, 0, FALSE)
          [] kind = "array32" ->
                IF CanRead(s, q, 4)
                THEN UnpackList(s, q + 4, CountField(s, q, 4, TRUE, big),
                                big, g)
                ELSE Thrown(s, 0, FALSE)
          [] kind = "map16" ->
                IF CanRead(s, q, 2)
                THEN UnpackMap(s, q + 2, CountField(s, q, 2, TRUE, big),
                               big, g)
                ELSE Thrown(s, 0, FALSE)
          [] kind = "map32" ->
                IF CanRead(s, q, 4)
                THEN UnpackMap(s, q + 4, CountField(s, q, 4, TRUE, big),
                               big, g)
                ELSE Thrown(s, 0, FALSE)
          [] kind = "raw16" ->
                IF CanRead(s, q, 2)
                THEN UnpackRaw(s, q + 2, CountField(s, q, 2, FALSE, big))
                ELSE Thrown(s, 0, FALSE)
          [] kind = "raw32" ->
                IF CanRead(s, q, 4)
                THEN UnpackRaw(s, q + 4, CountField(s, q, 4, TRUE, big))
                ELSE Thrown(s, 0, FALSE)
          [] kind = "fixraw" -> UnpackRaw(s, q, value - MP_FIXRAW)
          [] kind = "negfixnum" ->
                Returned(Obj("INTEGER", Word(BitAnd(value, 31) - 32, 4)),
                         q, 1, FALSE)
          [] kind = "fixarray" ->
                UnpackList(s, q, value - MP_FIXARRAY, big, g)
          [] kind = "fixmap" -> UnpackMap(s, q, value - MP_FIXMAP, big, g)
          [] kind = "fixnum" ->
                Returned(Obj("CHAR", <<value>>), q, 1, FALSE)
          [] OTHER -> Returned(NullObj, q, 0, TRUE)

(***************************************************************************)
(* Unpacker::unpack() one activation at a time.  The call stack is a       *)
(* sequence of frames, innermost last: the caller's call ("call"), the     *)
(* loop of unpackList ("list"), of unpackMap ("map", half = 1 while the    *)
(* value of a pair is still to be read) or of unpackRaw ("raw"); left is   *)
(* what the loop has still to read.  Only the position in the stream and   *)
(* the stack are followed here, not the Objects built.                     *)
(***************************************************************************)
Frame(op, left) == [op |-> op, left |-> left, half |-> 0]

\* read() threw unpack_exception: the stack is unwound to the caller
StepThrown(s) == [pos |-> Len(s), frames |-> <<>>, thrown |-> TRUE]

StepOk(p, fs) == [pos |-> p, frames |-> fs, thrown |-> FALSE]

RECURSIVE Done(_)
\* the innermost activation has returned to the loop that called it: the
\* loop goes on, or has finished and returns in turn
Done(fs) ==
    IF fs = <<>> THEN <<>>
    ELSE LET top == fs[Len(fs)]
             rest == SubSeq(fs, 1, Len(fs) - 1)
         IN  IF top.op = "map" /\ top.half = 0
             THEN Append(rest, [top EXCEPT !.half = 1])
             ELSE IF top.left = 1 THEN Done(rest)
             ELSE Append(rest, [top EXCEPT !.left = @ - 1, !.half = 0])

\* unpackList(size), unpackMap(size), unpackRaw(size) up to the first pass
\* of the loop: a negative size returns 0, size 0 returns the empty
\* container
Enter(fs, op, size) ==
    IF size <= 0 THEN Done(fs) ELSE Append(fs, Frame(op, size))

\* a case of the switch that reads a w-byte field and returns
StepScalar(s, q, w, fs) ==
    IF CanRead(s, q, w) THEN StepOk(q + w, Done(fs)) ELSE StepThrown(s)

\* a case of the switch that reads a w-byte count and calls unpackList,
\* unpackMap or unpackRaw with it
StepCounted(s, q, w, isSigned, op, fs, big) ==
    IF CanRead(s, q, w)
    THEN StepOk(q + w, Enter(fs, op, CountField(s, q, w, isSigned, big)))
    ELSE StepThrown(s)

\* one activation of unpack() at position p: the header is read, then the
\* field of its case; the activation returns, throws, or enters a loop
StepUnpack(s, p, fs, big) ==
    IF ~CanRead(s, p, 1) THEN StepThrown(s)
    ELSE
    LET value == s[p + 1]
        q == p + 1
        kind == HeaderKind(value)
    IN  CASE kind \in {"uint8", "int8"} -> StepScalar(s, q, 1, fs)
          [] kind \in {"uint16", "int16"} -> StepScalar(s, q, 2, fs)
          [] kind \in {"float32", "uint32", "int32"} ->
                StepScalar(s, q, 4, fs)
          [] kind \in {"float64", "uint64", "int64"} ->
                StepScalar(s, q, 8, fs)
          [] kind = "array16" -> StepCounted(s, q, 2, TRUE, "list", fs, big)
          [] kind = "array32" -> StepCounted(s, q, 4, TRUE, "list", fs, big)
          [] kind = "map16" -> StepCounted(s, q, 2, TRUE, "map", fs, big)
          [] kind = "map32" -> StepCounted(s, q, 4, TRUE, "map", fs, big)
          [] kind = "raw16" -> StepCounted(s, q, 2, FALSE, "raw", fs, big)
          [] kind = "raw32" -> StepCounted(s, q, 4, TRUE, "raw", fs, big)
          [] kind = "fixraw" -> StepOk(q, Enter(fs, "raw", value - MP_FIXRAW))
          [] kind = "fixarray" ->
                StepOk(q, Enter(fs, "list", value - MP_FIXARRAY))
          [] kind = "fixmap" -> StepOk(q, Enter(fs, "map", value - MP_FIXMAP))
          [] OTHER -> StepOk(q, Done(fs))

\* a loop of unpackRaw that looks at the next byte without taking it
StepRawPeek(s, p, fs) ==
    IF CanRead(s, p, 1) THEN StepOk(p, Done(fs)) ELSE StepThrown(s)

\* one pass of the loop of unpackRaw: read(data[i])
StepRaw(s, p, fs) ==
    IF CanRead(s, p, 1) THEN StepOk(p + 1, Done(fs)) ELSE StepThrown(s)

(***************************************************************************)
(* The accessors of Object.                                                *)
(***************************************************************************)
\* enum object_type
ObjectTypes == {"NIL", "BOOLEAN", "CHAR", "SHORT", "INTEGER", "LONG",
                "UCHAR", "USHORT", "UINTEGER", "ULONG", "FLOAT", "DOUBLE",
                "RAW", "ARRAY", "MAP"}

RECURSIVE NodesOf(_)

\* the Objects of the tree under o: o, the Objects an ARRAY lists, the keys
\* and values a MAP holds (a null pointer is no Object)
NodesOf(o) ==
    IF o = NullObj THEN {}
    ELSE {o}
         \cup UNION {NodesOf(o.kids[i]) : i \in 1..Len(o.kids)}
         \cup UNION {NodesOf(o.pairs[i].key) \cup NodesOf(o.pairs[i].val) :
                        i \in 1..Len(o.pairs)}

\* Object::getType()
GetType(o) == o.type

\* getAs<type>() with the test skipped between two signed integer types
GetAsLoose(o, type) ==
    IF type # GetType(o)
       /\ ~({type, GetType(o)} \subseteq {"CHAR", "SHORT", "INTEGER", "LONG"})
    THEN [threw |-> "bad_cast", ref |-> NullObj]
    ELSE [threw |-> "", ref |-> o]

\* Object::getAs<type>(): std::bad_cast when type is not type_, else the
\* reference to the ObjectImpl<type>, whose cast operator gives value_
GetAs(o, type) ==
    IF type # GetType(o)
    THEN [threw |-> "bad_cast", ref |-> NullObj]
    ELSE [threw |-> "", ref |-> o]

(***************************************************************************)
(* The heap.  Every new and new[] of a call gives a block at the next free *)
(* address; address 0 is the null pointer.  A block holds the pointers its *)
(* destructor deletes: the std::list of an ARRAY, the keys and values of a *)
(* MAP, the buffer of a RAW.                                               *)
(***************************************************************************)
\* the Object pointers a container holds, in the order they were added
Owned(o) ==
    IF o.type = "MAP"
    THEN [j \in 1..(2 * Len(o.pairs)) |->
             IF j % 2 = 1 THEN o.pairs[(j + 1) \div 2].key
             ELSE o.pairs[j \div 2].val]
    ELSE o.kids

RECURSIVE Alloc(_, _)
RECURSIVE AllocAll(_, _, _)

\* the trees os[i], os[i + 1], ... allocated one after the other above
\* address base
AllocAll(os, i, base) ==
    IF i > Len(os) THEN [roots |-> <<>>, blocks |-> <<>>]
    ELSE LET a == Alloc(os[i], base)
             rest == AllocAll(os, i + 1, base + Len(a.blocks))
         IN  [roots |-> <<a.root>> \o rest.roots,
              blocks |-> a.blocks \o rest.blocks]

\* the blocks one unpack call allocates for tree o above address base, in
\* the order of the new expressions: unpackRaw allocates the buffer and
\* then the Raw; unpackList and unpackMap the container and then, inside
\* the loop, each child
Alloc(o, base) ==
    IF o = NullObj THEN [root |-> 0, blocks |-> <<>>]
    ELSE IF o.type = "RAW"
    THEN [root |-> base + 2,
          blocks |-> <<[kind |-> "buffer", refs |-> <<>>],
                       [kind |-> "RAW", refs |-> <<base + 1>>]>>]
    ELSE LET sub == AllocAll(Owned(o), 1, base + 1)
         IN  [root |-> base + 1,
              blocks |-> <<[kind |-> o.type, refs |-> sub.roots]>>
                         \o sub.blocks]

RECURSIVE Released(_, _)
RECURSIVE ReleasedAll(_, _, _)

\* delete of each pointer refs[i], refs[i + 1], ...
ReleasedAll(refs, i, heap) ==
    IF i > Len(refs) THEN <<>>
    ELSE Released(refs[i], heap) \o ReleasedAll(refs, i + 1, heap)

\* the destructor of a container without the delete of what it holds
ReleasedShallow(addr, heap) == IF addr = 0 THEN <<>> ELSE <<addr>>

\* delete of pointer addr: the virtual destructor deletes the pointers the
\* block holds (~ObjectImpl<ARRAY>, ~ObjectImpl<MAP>, ~ObjectImpl<RAW>) and
\* the block itself is released; delete of a null pointer does nothing.
\* The result lists the addresses released, one entry per release.
Released(addr, heap) ==
    IF addr = 0 THEN <<>>
    ELSE ReleasedAll(heap[addr].refs, 1, heap) \o <<addr>>

\* no accessor has been called yet
NoAccess == [via |-> "none", idx |-> 0, obj |-> NullObj, want |-> "",
             threw |-> "", ref |-> NullObj, out |-> <<>>]

(***************************************************************************)
(* State.  One std::stringstream is the Packer's sink and the Unpacker's   *)
(* source, as in the test fixture (packer_(ss_), unpacker_(ss_)).          *)
(***************************************************************************)
VARIABLES
    hostBig,    \* the host stores words most significant byte first
    stream,     \* the bytes written to the stream so far
    rpos,       \* the read position of the stream
    eofbit,     \* the stream has met its end in a read (sticky)
    sent,       \* the values packed so far, each with the stream length after
    origin,     \* "packer", "wire" (foreign bytes) or "cut" (truncated)
    results,    \* the outcome of each Unpacker::unpack call so far
    access,     \* the outcome of the latest Object::getAs or operator>> call
    deleted,    \* the calls whose returned Object the application deleted
    frames,     \* the unpackList / unpackMap activations of a running call
    dstate      \* "idle", "running", "returned" or "thrown": the call traced

vars == <<hostBig, stream, rpos, eofbit, sent, origin, results, access,
          deleted, frames, dstate>>

(***************************************************************************)
(* Inputs of the model.                                                    *)
(***************************************************************************)
\* longs on both sides of every width boundary of Packer::pack(long)
TestLongs ==
    {Long(0), Long(1), Long(127), Long(128), Long(255), Long(256),
     Long(65535), Long(65536), Long(2147483647),
     <<0, 0, 0, 128, 0, 0, 0, 0>>,                  \* 2^31
     <<255, 255, 255, 255, 0, 0, 0, 0>>,            \* 2^32 - 1
     <<0, 0, 0, 0, 1, 0, 0, 0>>,                    \* 2^32
     <<255, 255, 255, 255, 255, 255, 255, 127>>,    \* LONG_MAX
     Long(-1), Long(-32), Long(-33), Long(-128), Long(-129),
     Long(-32768), Long(-32769), Long(-2147483647 - 1),
     <<255, 255, 255, 127, 255, 255, 255, 255>>,    \* -2^31 - 1
     <<0, 0, 0, 0, 0, 0, 0, 128>>}                  \* LONG_MIN

\* the longs mixed with other values: one of each encoding family
FewLongs == {Long(0), Long(-1), Long(300), Long(-40000)}

Filled(n, b) == [i \in 1..n |-> b]

\* byte buffers: empty, one byte, with a zero byte inside, 31 and 32 bytes
TestBuffers ==
    {<<>>, <<97>>, <<97, 0, 98>>, [i \in 1..31 |-> 64 + i],
     [i \in 1..32 |-> 64 + i]}

\* the same contents held in a std::string
TestStrings == {<<97>>, <<97, 0, 98>>, [i \in 1..32 |-> 64 + i]}

\* sequence containers: vector<long>, vector<vector<long>>, vector<string>
TestArrays ==
    {AppArray(<<>>),
     AppArray(Filled(3, AppLong(Long(0)))),
     AppArray([i \in 1..15 |-> AppLong(Long(i))]),
     AppArray([i \in 1..16 |-> AppLong(Long(i - 8))]),
     AppArray(<<AppArray(<<AppLong(Long(1)), AppLong(Long(2))>>),
                AppArray(<<>>)>>),
     AppArray(<<AppString(<<97>>), AppData(<<>>)>>)}

LongPair(x, y) == AppPair(AppLong(Long(x)), AppLong(Long(y)))

\* multimap<long, long> in iteration order, with equal keys and equal pairs
TestMaps ==
    {AppMap(<<>>),
     AppMap(<<LongPair(1, 2), LongPair(1, 3)>>),
     AppMap(<<LongPair(5, 5), LongPair(5, 5), LongPair(200, -1)>>),
     AppMap([i \in 1..15 |-> LongPair(i, -i)]),
     AppMap([i \in 1..16 |-> LongPair(i \div 2, 1000 * i)])}

\* buffers and containers whose length needs the top bit of a 16-bit field,
\* or a 32-bit field
BulkValues ==
    {AppData(Filled(65535, 65)),
     AppData([i \in 1..65536 |-> i % 256]),
     AppString(Filled(65536, 66)),
     AppBulk(AppArray(<<AppLong(Long(0))>>), 32768),
     AppBulk(AppArray(<<AppLong(Long(7)), AppLong(Long(-7))>>), 32767),
     AppArray(<<AppLong(Long(3)),
                AppBulk(AppArray(<<AppLong(Long(0))>>), 32768)>>),
     AppBulk(AppMap(<<LongPair(0, 0)>>), 32768),
     AppBulk(AppMap(<<LongPair(1, 2), LongPair(1, 3)>>), 20000)}

\* containers whose count needs a 32-bit field
HugeValues ==
    {AppBulk(AppArray(<<AppLong(Long(0))>>), 65536),
     AppBulk(AppMap(<<LongPair(1, 2), LongPair(1, 3)>>), 32768)}

\* values of each scalar type: 0, 1, the limits, and values next to the
\* fixnum boundaries
TestScalars(t) ==
    CASE t = "bool" -> {<<0>>, <<1>>}
      [] t = "char" -> {Word(n, 1) : n \in {0, 1, 127, -1, -32, -33, -128}}
      [] t = "uchar" -> {Word(n, 1) : n \in {0, 1, 127, 128, 255}}
      [] t = "short" -> {Word(n, 2) : n \in {0, 127, 32767, -1, -129, -32768}}
      [] t = "ushort" -> {Word(n, 2) : n \in {0, 255, 256, 65535}}
      [] t = "int" ->
            {Word(n, 4) : n \in {0, 65536, 2147483647, -1, -32769,
                                  -2147483647 - 1}}
      [] OTHER ->
            {Long(0), Long(1), Long(-1), Long(-2147483647 - 1),
             <<255, 255, 255, 127, 255, 255, 255, 255>>,
             <<255, 255, 255, 255, 255, 255, 255, 127>>,
             <<0, 0, 0, 0, 0, 0, 0, 128>>}

\* what the indeterminate local iVal may hold
Garbage == {Word(0, 4), Word(-40000, 4), <<239, 190, 173, 222>>}

\* bytes following a foreign header byte: nothing, zero bytes (zero counts
\* and lengths, fixnum 0 elements), a small count, an unassigned header
\* alone and inside a container, and a negative count
Tails ==
    {<<>>, Filled(32, 0), <<1, 0, 0, 0, 7, 7>>, <<193>>,
     <<145, 193, 1>>, <<255, 255, 255, 255>>}

(***************************************************************************)
(* Init and the actions.                                                   *)
(***************************************************************************)
Init ==
    /\ hostBig \in BOOLEAN
    /\ stream = <<>>
    /\ rpos = 0
    /\ eofbit = FALSE
    /\ sent = <<>>
    /\ origin = "packer"
    /\ results = <<>>
    /\ access = NoAccess
    /\ deleted = {}
    /\ frames = <<>>
    /\ dstate = "idle"

\* the application may pack one more value: nothing has been unpacked yet
\* and the stream holds only what this Packer wrote
CanPack(limit) ==
    /\ origin = "packer"
    /\ results = <<>>
    /\ Len(sent) < limit

\* one Packer::pack call appends the encoding of v to the stream
Emit(v) ==
    /\ \E bytes \in {PackValue(v, hostBig)} :
           /\ stream' = stream \o bytes
           /\ sent' = Append(sent, [v |-> v, end |-> Len(stream) + Len(bytes)])
    /\ UNCHANGED <<hostBig, rpos, eofbit, origin, results>>
    /\ UNCHANGED <<access, deleted, frames, dstate>>

\* packer.pack(long)
CallPackLong ==
    CanPack(MaxValues) /\ \E value \in FewLongs : Emit(AppLong(value))

\* packer.pack(long) on every width boundary
CallPackLongRange ==
    CanPack(MaxValues) /\ \E value \in TestLongs : Emit(AppLong(value))

\* packer.pack(data, length)
CallPackData ==
    CanPack(MaxValues) /\ \E data \in TestBuffers : Emit(AppData(data))

\* packer.pack(std::string)
CallPackString ==
    CanPack(MaxValues) /\ \E value \in TestStrings : Emit(AppString(value))

\* packer.pack(container), packer.pack(first, last)
CallPackRange ==
    CanPack(MaxValues) /\ \E v \in TestArrays \cup TestMaps : Emit(v)

\* one bulk value packed into an empty stream
CallPackBulk == CanPack(1) /\ \E v \in BulkValues : Emit(v)

\* buffers, sequences and associations of every small length, on both
\* sides of the one-byte forms
TierValues ==
    {AppData([i \in 1..n |-> i]) : n \in 0..40}
    \cup {AppArray([i \in 1..n |-> AppLong(Long(i - 1))]) : n \in 0..20}
    \cup {AppMap([i \in 1..n |-> LongPair(i % 3, 100 * i)]) : n \in 0..20}

\* one buffer or container packed into an empty stream
CallPackTier == CanPack(1) /\ \E v \in TierValues \cup TestArrays : Emit(v)

\* one container of at least 65536 elements packed into an empty stream
CallPackHuge == CanPack(1) /\ \E v \in HugeValues : Emit(v)

\* bytes of a foreign producer are put into the empty stream
Receive ==
    /\ origin = "packer"
    /\ sent = <<>>
    /\ results = <<>>
    /\ \E h \in Byte, t \in Tails : stream' = <<h>> \o t
    /\ origin' = "wire"
    /\ UNCHANGED <<hostBig, rpos, eofbit, sent, results>>
    /\ UNCHANGED <<access, deleted, frames, dstate>>

\* the stream is cut to the first k bytes of the one encoded value it holds
Truncate ==
    /\ origin = "packer"
    /\ Len(sent) = 1
    /\ results = <<>>
    /\ \E k \in 0..MaxCut : k < Len(stream) /\ stream' = SubSeq(stream, 1, k)
    /\ origin' = "cut"
    /\ UNCHANGED <<hostBig, rpos, eofbit, sent, results>>
    /\ UNCHANGED <<access, deleted, frames, dstate>>

\* one call of Unpacker::unpack() by the application
CallUnpack ==
    /\ Len(results) < MaxUnpacks
    /\ \E g \in Garbage :
       \E r \in {IF eofbit THEN Thrown(stream, 0, FALSE)
                 ELSE Unpack(stream, rpos, hostBig, g)} :
        LET header == IF CanRead(stream, rpos, 1) /\ ~eofbit
                      THEN stream[rpos + 1] ELSE -1
        IN  /\ results' = Append(results,
                   [obj |-> r.obj, thrown |-> r.thrown, live |-> r.live,
                    bad |-> r.bad, from |-> rpos, to |-> r.pos,
                    header |-> header,
                    kind |-> IF header = -1 THEN "exhausted"
                             ELSE HeaderKind(header)])
            /\ rpos' = r.pos
            /\ eofbit' = (eofbit \/ r.thrown)
    /\ UNCHANGED <<hostBig, stream, sent, origin>>
    /\ UNCHANGED <<access, deleted, frames, dstate>>

\* complete encodings as a producer that follows the wire format writes
\* them: one of each object type, the value 5 in every integer width, 256
\* and -5, and nested containers (one of them with an unassigned header)
SampleStreams ==
    {<<192>>, <<194>>, <<195>>,
     <<202, 64, 160, 0, 0>>, <<203, 64, 20, 0, 0, 0, 0, 0, 0>>,
     <<5>>, <<255>>, <<224>>,
     <<204, 5>>, <<205, 0, 5>>, <<206, 0, 0, 0, 5>>,
     <<207, 0, 0, 0, 0, 0, 0, 0, 5>>,
     <<208, 5>>, <<209, 0, 5>>, <<210, 0, 0, 0, 5>>,
     <<211, 0, 0, 0, 0, 0, 0, 0, 5>>,
     <<205, 1, 0>>, <<208, 251>>, <<209, 255, 251>>,
     <<211, 255, 255, 255, 255, 255, 255, 255, 251>>,
     <<162, 104, 105>>,
     <<146, 1, 161, 97>>,
     <<129, 161, 107, 146, 1, 192>>,
     <<130, 1, 2, 1, 144>>,
     <<145, 193>>}

\* a complete encoding of a foreign producer is put into the empty stream
ReceiveSample ==
    /\ origin = "packer"
    /\ sent = <<>>
    /\ results = <<>>
    /\ stream' \in SampleStreams
    /\ origin' = "wire"
    /\ UNCHANGED <<hostBig, rpos, eofbit, sent, results>>
    /\ UNCHANGED <<access, deleted, frames, dstate>>

\* the application calls getAs<type>() on an Object of a tree it holds
CallGetAs ==
    \E i \in 1..Len(results) :
        /\ ~results[i].thrown
        /\ i \notin deleted
        /\ \E o \in NodesOf(results[i].obj), type \in ObjectTypes :
            \E r \in {GetAs(o, type)} :
               access' = [via |-> "getAs", idx |-> i, obj |-> o,
                          want |-> type, threw |-> r.threw, ref |-> r.ref,
                          out |-> <<>>]
        /\ UNCHANGED <<hostBig, stream, rpos, eofbit, sent, origin, results,
                       deleted, frames, dstate>>

\* packer << v: operator<<(Packer, const T&) calls p.pack(v)
CallStreamOut ==
    /\ CanPack(MaxValues)
    /\ \E t \in ScalarTypes : \E w \in TestScalars(t) :
           Emit(IF t = "long" THEN AppLong(w) ELSE AppScalar(t, w))

\* unpacker >> v with v of the type of the value packed at this place:
\* operator>>(Unpacker, T&) unpacks an Object, throws unpack_exception on
\* a null pointer, assigns obj->getAs<T>() to v (std::bad_cast leaves the
\* function before the delete) and deletes the Object; it then flows off
\* the end of a function that returns Unpacker&, which is undefined
CallStreamIn ==
    /\ Len(results) < MaxUnpacks
    /\ Len(results) < Len(sent)
    /\ \E g \in Garbage, fallsOff \in BOOLEAN :
       \E r \in {IF eofbit THEN Thrown(stream, 0, FALSE)
                 ELSE Unpack(stream, rpos, hostBig, g)} :
        LET i == Len(results) + 1
            id == TypeCastId(sent[i].v.k)
            header == IF CanRead(stream, rpos, 1) /\ ~eofbit
                      THEN stream[rpos + 1] ELSE -1
            a == IF r.obj = NullObj
                 THEN [threw |-> "unpack_exception", ref |-> NullObj]
                 ELSE GetAs(r.obj, id)
            done == a.threw = ""
        IN  /\ results' = Append(results,
                   [obj |-> r.obj, thrown |-> r.thrown, live |-> r.live,
                    bad |-> r.bad, from |-> rpos, to |-> r.pos,
                    header |-> header,
                    kind |-> IF header = -1 THEN "exhausted"
                             ELSE HeaderKind(header)])
            /\ rpos' = r.pos
            /\ eofbit' = (eofbit \/ r.thrown)
            /\ access' = [via |-> "stream", idx |-> i, obj |-> r.obj,
                          want |-> id,
                          threw |-> IF done /\ fallsOff THEN "undefined"
                                    ELSE a.threw,
                          ref |-> a.ref,
                          out |-> IF done THEN a.ref.val ELSE <<>>]
            /\ deleted' = IF done THEN deleted \cup {i} ELSE deleted
    /\ UNCHANGED <<hostBig, stream, sent, origin, frames, dstate>>

\* streams whose headers declare more than follows them, or nest deeply
HostileStreams ==
    {<<221, 127, 127, 127, 127>>,
     <<221, 127, 127, 127, 127, 1, 2, 3>>,
     <<223, 127, 127, 127, 127, 1>>,
     <<219, 127, 127, 127, 127, 1, 2>>,
     <<220, 127, 127, 192>>,
     <<222, 127, 127, 1, 2, 3>>,
     <<218, 127, 127, 1>>,
     <<159, 159, 159, 159>>,
     <<143, 143, 143>>,
     <<145, 145, 145, 145, 145, 192>>,
     <<221, 255, 255, 255, 255, 1>>,
     <<191, 1, 2>>,
     <<146, 144, 128>>,
     <<221, 0, 0, 0, 0, 5>>,
     <<130, 1, 146, 1, 2, 161, 97, 192, 7>>}

\* such a stream is handed to the Unpacker
ReceiveHostile ==
    /\ origin = "packer"
    /\ sent = <<>>
    /\ results = <<>>
    /\ stream' \in HostileStreams
    /\ origin' = "wire"
    /\ UNCHANGED <<hostBig, rpos, eofbit, sent, results>>
    /\ UNCHANGED <<access, deleted, frames, dstate>>

\* the application calls unpack(): the outermost activation is pending
DecodeBegin ==
    /\ origin = "wire"
    /\ dstate # "running"
    /\ dstate' = "running"
    /\ frames' = <<Frame("call", 1)>>
    /\ UNCHANGED <<hostBig, stream, rpos, eofbit, sent, origin, results,
                   access, deleted>>

\* the outcome r of one step of the running call
DecodeApply(r) ==
    /\ rpos' = r.pos
    /\ eofbit' = (eofbit \/ r.thrown)
    /\ frames' = r.frames
    /\ dstate' = IF r.thrown THEN "thrown"
                 ELSE IF r.frames = <<>> THEN "returned" ELSE "running"
    /\ UNCHANGED <<hostBig, stream, sent, origin, results, access, deleted>>

\* the pending activation of unpack() runs
DecodeUnpack ==
    /\ dstate = "running"
    /\ frames[Len(frames)].op # "raw"
    /\ DecodeApply(IF eofbit THEN StepThrown(stream)
                   ELSE StepUnpack(stream, rpos, frames, hostBig))

\* the loop of unpackRaw reads one byte
DecodeRaw ==
    /\ dstate = "running"
    /\ frames[Len(frames)].op = "raw"
    /\ DecodeApply(IF eofbit THEN StepThrown(stream)
                   ELSE StepRaw(stream, rpos, frames))

\* the application deletes the Object a call returned
CallDelete ==
    /\ \E i \in 1..Len(results) :
           /\ ~results[i].thrown
           /\ results[i].obj # NullObj
           /\ i \notin deleted
           /\ deleted' = deleted \cup {i}
    /\ UNCHANGED <<hostBig, stream, rpos, eofbit, sent, origin, results,
                   access, frames, dstate>>

Next ==
    \/ CallPackLong
    \/ CallPackData
    \/ CallPackString
    \/ CallPackRange
    \/ Receive
    \/ Truncate
    \/ CallUnpack

Spec == Init /\ [][Next]_vars

\* the same Packer and Unpacker on single bulk values
NextBulk ==
    \/ CallPackBulk
    \/ Truncate
    \/ CallUnpack

BulkSpec == Init /\ [][NextBulk]_vars

\* the same Packer and Unpacker on longs of every width (class TestRange)
NextRange ==
    \/ CallPackLongRange
    \/ CallUnpack

RangeSpec == Init /\ [][NextRange]_vars

\* the Unpacker alone, on bytes of a foreign producer (Examples, example4)
NextWire ==
    \/ Receive
    \/ CallUnpack

WireSpec == Init /\ [][NextWire]_vars

\* the Packer alone, on buffers and containers of every length tier
NextPack ==
    \/ CallPackTier
    \/ CallPackBulk
    \/ CallPackHuge

PackSpec == Init /\ [][NextPack]_vars

\* typed values through the stream operators (class TestRange)
NextStream ==
    \/ CallStreamOut
    \/ CallStreamIn

StreamSpec == Init /\ [][NextStream]_vars

\* decoded Objects in the hands of the application
NextObject ==
    \/ CallPackLong
    \/ ReceiveSample
    \/ CallUnpack
    \/ CallGetAs

ObjectSpec == Init /\ [][NextObject]_vars

\* Objects decoded from sample streams and deleted by the application
NextHeap ==
    \/ ReceiveSample
    \/ CallUnpack
    \/ CallDelete

HeapSpec == Init /\ [][NextHeap]_vars

\* calls of unpack() followed activation by activation; a call that has
\* begun keeps running
NextStep ==
    \/ ReceiveSample
    \/ ReceiveHostile
    \/ DecodeBegin
    \/ DecodeUnpack
    \/ DecodeRaw

StepSpec ==
    Init /\ [][NextStep]_vars /\ WF_vars(DecodeUnpack) /\ WF_vars(DecodeRaw)

(***************************************************************************)
(* Reading Objects and the stream for the properties below.                *)
(***************************************************************************)
\* type_traits: the object types that hold an integer, and the signed ones
IntTypes == {"CHAR", "SHORT", "INTEGER", "LONG",
             "UCHAR", "USHORT", "UINTEGER", "ULONG"}
SignedTypes == {"CHAR", "SHORT", "INTEGER", "LONG"}

IsInteger(o) == o.type \in IntTypes

\* the number an integer Object stores, as a 9-byte two's complement word
\* (wide enough for every int64 and every uint64)
NumberOf(o) == Resize(o.val, 9, o.type \in SignedTypes)

\* the number of a long, and of an int-sized number, in the same form
Num9(w) == Resize(w, 9, TRUE)
Int9(n) == Word(n, 9)

\* where the encoding of the i-th packed value starts, and its bytes
StartOf(i) == IF i = 1 THEN 0 ELSE sent[i - 1].end
Encoding(i) == SubSeq(stream, StartOf(i) + 1, sent[i].end)

RECURSIVE Matches(_, _)

\* the decoded pair q is the packed pair p
PairMatches(p, q) == Matches(p.elems[1], q.key) /\ Matches(p.elems[2], q.val)

\* Object o holds the value v that was packed
Matches(v, o) ==
    CASE v.k = "long" -> IsInteger(o) /\ NumberOf(o) = Num9(v.num)
      [] v.k \in {"data", "string"} ->
            o.type = "RAW" /\ o.size = Len(v.bytes) /\ o.val = v.bytes
      [] v.k = "array" ->
            /\ o.type = "ARRAY"
            /\ Len(o.kids) = Distance(v)
            /\ \A i \in 1..Distance(v) : Matches(ElemAt(v, i), o.kids[i])
      [] v.k = "map" ->
            /\ o.type = "MAP"
            /\ Len(o.pairs) = Distance(v)
            /\ \A i \in 1..Len(v.elems) :
                  Cardinality({j \in 1..Len(o.pairs) :
                                  PairMatches(v.elems[i], o.pairs[j])})
                  = v.rep * Cardinality({j \in 1..Len(v.elems) :
                                            v.elems[j] = v.elems[i]})
      [] OTHER -> FALSE

\* the i-th unpack call returned an Object for the i-th packed value
Answered(i) == i <= Len(sent) /\ i <= Len(results)

(***************************************************************************)
(* C1.  Integer round-trip: unpacking the bytes of pack(long v) returns an *)
(* Object whose stored number is v, on both sides of every width boundary. *)
(***************************************************************************)
C1_IntegerRoundTrip ==
    origin = "packer" =>
        \A i \in 1..Len(results) :
            (Answered(i) /\ sent[i].v.k = "long") =>
                /\ ~results[i].thrown
                /\ IsInteger(results[i].obj)
                /\ NumberOf(results[i].obj) = Num9(sent[i].v.num)

(***************************************************************************)
(* C2.  Minimal width: pack(long v) emits the smallest form that holds v:  *)
(* one byte v for 0..127, 0xCC + 1 for 128..255, 0xCD + 2 up to 65535,     *)
(* 0xCE + 4 up to 2^32-1, 0xCF + 8 above; one byte 0xE0 | low 5 bits for   *)
(* -32..-1, 0xD0 + 1 down to -128, 0xD1 + 2 down to -32768, 0xD2 + 4 down  *)
(* to -2^31, 0xD3 + 8 below.  pack(0) = 00, pack(-1) = FF, pack(128) =     *)
(* CC 80.                                                                  *)
(***************************************************************************)
Between(lo, v, hi) == LongLE(lo, v) /\ LongLE(v, hi)

TwoTo32Less1 == <<255, 255, 255, 255, 0, 0, 0, 0>>

\* the first byte and the length the table gives for v
C2_Form(v) ==
    IF Between(Long(0), v, Long(127)) THEN [first |-> v[1], len |-> 1]
    ELSE IF Between(Long(128), v, Long(255)) THEN [first |-> 204, len |-> 2]
    ELSE IF Between(Long(256), v, Long(65535)) THEN [first |-> 205, len |-> 3]
    ELSE IF Between(Long(65536), v, TwoTo32Less1)
    THEN [first |-> 206, len |-> 5]
    ELSE IF LongLE(Long(0), v) THEN [first |-> 207, len |-> 9]
    ELSE IF Between(Long(-32), v, Long(-1))
    THEN [first |-> 224 + (v[1] % 32), len |-> 1]
    ELSE IF Between(Long(-128), v, Long(-33)) THEN [first |-> 208, len |-> 2]
    ELSE IF Between(Long(-32768), v, Long(-129))
    THEN [first |-> 209, len |-> 3]
    ELSE IF Between(Long(-2147483647 - 1), v, Long(-32769))
    THEN [first |-> 210, len |-> 5]
    ELSE [first |-> 211, len |-> 9]

C2_MinimalWidth ==
    origin = "packer" =>
        \A i \in 1..Len(sent) :
            sent[i].v.k = "long" =>
                LET e == Encoding(i)
                    f == C2_Form(sent[i].v.num)
                IN  /\ Len(e) = f.len
                    /\ e[1] = f.first
                    /\ f.len = 2 => e[2] = sent[i].v.num[1]
                    /\ sent[i].v.num = Long(0) => e = <<0>>
                    /\ sent[i].v.num = Long(-1) => e = <<255>>
                    /\ sent[i].v.num = Long(128) => e = <<204, 128>>

\* a stream that holds 65536 as uint32 followed by -32 as a negative fixnum
C2_Witness ==
    /\ origin = "packer"
    /\ Len(sent) = 2
    /\ sent[1].v.num = Long(65536)
    /\ sent[2].v.num = Long(-32)
    /\ Len(stream) = 6
    /\ stream[1] = 206
    /\ stream[6] = 224

(***************************************************************************)
(* C3.  Header dispatch is total and matches the wire-format table: every  *)
(* header byte 0..255 is taken by exactly the branch the table gives, with *)
(* the value, length or count found in its low bits; the exact tags do not *)
(* shadow a masked range and no masked range takes an exact tag.           *)
(***************************************************************************)
C3_TableKind(h) ==
    CASE h \in 0..127 -> "fixnum"
      [] h \in 128..143 -> "fixmap"
      [] h \in 144..159 -> "fixarray"
      [] h \in 160..191 -> "fixraw"
      [] h \in 224..255 -> "negfixnum"
      [] h = 192 -> "nil"
      [] h = 194 -> "false"
      [] h = 195 -> "true"
      [] h = 202 -> "float32"
      [] h = 203 -> "float64"
      [] h = 204 -> "uint8"
      [] h = 205 -> "uint16"
      [] h = 206 -> "uint32"
      [] h = 207 -> "uint64"
      [] h = 208 -> "int8"
      [] h = 209 -> "int16"
      [] h = 210 -> "int32"
      [] h = 211 -> "int64"
      [] h = 218 -> "raw16"
      [] h = 219 -> "raw32"
      [] h = 220 -> "array16"
      [] h = 221 -> "array32"
      [] h = 222 -> "map16"
      [] h = 223 -> "map32"
      [] OTHER -> "none"

\* the payload width the table gives a scalar kind
C3_Payload(kind) ==
    CASE kind \in {"nil", "false", "true"} -> 0
      [] kind \in {"uint8", "int8"} -> 1
      [] kind \in {"uint16", "int16"} -> 2
      [] kind \in {"float32", "uint32", "int32"} -> 4
      [] OTHER -> 8

C3_Scalars == {"nil", "false", "true", "float32", "float64", "uint8",
               "uint16", "uint32", "uint64", "int8", "int16", "int32",
               "int64"}

\* what a call that returned shows of the branch it took on header h
C3_Fits(kind, h, r) ==
    CASE kind = "fixnum" ->
            IsInteger(r.obj) /\ NumberOf(r.obj) = Int9(h) /\ r.to = r.from + 1
      [] kind = "negfixnum" ->
            /\ IsInteger(r.obj)
            /\ NumberOf(r.obj) = Int9((h % 32) - 32)
            /\ r.to = r.from + 1
      [] kind = "fixmap" -> r.obj.type = "MAP" /\ Len(r.obj.pairs) = h % 16
      [] kind = "fixarray" -> r.obj.type = "ARRAY" /\ Len(r.obj.kids) = h % 16
      [] kind = "fixraw" ->
            /\ r.obj.type = "RAW"
            /\ r.obj.size = h % 32
            /\ r.to = r.from + 1 + (h % 32)
      [] kind \in C3_Scalars ->
            /\ r.to = r.from + 1 + C3_Payload(kind)
            /\ kind = "nil" => r.obj.type = "NIL"
            /\ kind = "false" => r.obj = Obj("BOOLEAN", <<0>>)
            /\ kind = "true" => r.obj = Obj("BOOLEAN", <<1>>)
            /\ kind \in {"float32", "float64"} =>
                  r.obj.type \in {"FLOAT", "DOUBLE"}
            /\ kind \notin {"nil", "false", "true", "float32", "float64"} =>
                  IsInteger(r.obj)
      [] kind \in {"raw16", "raw32"} -> r.obj.type \in {"RAW", "null"}
      [] kind \in {"array16", "array32"} -> r.obj.type \in {"ARRAY", "null"}
      [] kind \in {"map16", "map32"} -> r.obj.type \in {"MAP", "null"}
      [] OTHER -> r.obj = NullObj

C3_HeaderDispatch ==
    \A i \in 1..Len(results) :
        LET r == results[i]
        IN  r.header # -1 =>
                /\ r.kind = C3_TableKind(r.header)
                /\ ~r.thrown => C3_Fits(C3_TableKind(r.header), r.header, r)

\* a foreign stream whose header 0xBF, the last fixraw byte before the exact
\* tags, was decoded as a raw of 31 bytes
C3_Witness ==
    /\ origin = "wire"
    /\ Len(results) >= 1
    /\ results[1].header = 191
    /\ ~results[1].thrown
    /\ results[1].obj.type = "RAW"
    /\ results[1].obj.size = 31

(***************************************************************************)
(* C4.  Truncation safety: on a stream that holds exactly a proper prefix  *)
(* of a valid encoding of more than one byte, unpack throws                *)
(* unpack_exception and returns no Object.                                 *)
(***************************************************************************)
C4_TruncationThrows ==
    (origin = "cut" /\ sent[1].end > 1) =>
        \A i \in 1..Len(results) :
            results[i].thrown /\ results[i].obj = NullObj

(***************************************************************************)
(* C5.  Sequential decode: after v1..vN are packed back-to-back, the i-th  *)
(* unpack call returns an Object equal to vi and consumes exactly the      *)
(* bytes of its encoding; the (N+1)th call throws unpack_exception.        *)
(***************************************************************************)
C5_SequentialDecode ==
    origin = "packer" =>
        \A i \in 1..Len(results) :
            IF i <= Len(sent)
            THEN /\ ~results[i].thrown
                 /\ results[i].from = StartOf(i)
                 /\ results[i].to = sent[i].end
                 /\ Matches(sent[i].v, results[i].obj)
            ELSE results[i].thrown

(***************************************************************************)
(* C6.  Malformed header: when a call reads a header byte that matches no  *)
(* tag, no masked range and not the fixnum range, at the top level or      *)
(* inside an array or map, the call fails with an error and hands no       *)
(* Object to the caller (so no Array or Map with a null child).            *)
(***************************************************************************)
C6_MalformedHeaderFails ==
    \A i \in 1..Len(results) :
        results[i].bad => (results[i].thrown /\ results[i].obj = NullObj)

(***************************************************************************)
(* C7.  No leak on failed decode: when unpack throws, every Object and     *)
(* buffer the call allocated has been released.                            *)
(***************************************************************************)
C7_NoLeakOnThrow ==
    \A i \in 1..Len(results) : results[i].thrown => results[i].live = 0

(***************************************************************************)
(* C8.  Array round-trip: a packed sequence of n elements is unpacked as   *)
(* an ARRAY with exactly n children, the i-th child equal to the i-th      *)
(* element; every count an array16 header carries is read back unchanged.  *)
(***************************************************************************)
C8_ArrayRoundTrip ==
    origin = "packer" =>
        \A i \in 1..Len(results) :
            (Answered(i) /\ sent[i].v.k = "array") =>
                /\ ~results[i].thrown
                /\ results[i].obj.type = "ARRAY"
                /\ Len(results[i].obj.kids) = Distance(sent[i].v)
                /\ Matches(sent[i].v, results[i].obj)

(***************************************************************************)
(* C9.  Map round-trip: a packed association of n pairs is unpacked as a   *)
(* MAP of exactly n pairs, the same multiset of (key, value) pairs: equal  *)
(* keys are not merged and each key keeps the value that followed it.      *)
(***************************************************************************)
C9_MapRoundTrip ==
    origin = "packer" =>
        \A i \in 1..Len(results) :
            (Answered(i) /\ sent[i].v.k = "map") =>
                /\ ~results[i].thrown
                /\ results[i].obj.type = "MAP"
                /\ Len(results[i].obj.pairs) = Distance(sent[i].v)
                /\ Matches(sent[i].v, results[i].obj)

(***************************************************************************)
(* C10.  Raw round-trip: a byte buffer packed through pack(data, length)   *)
(* or through the std::string overload is unpacked as a RAW Object of the  *)
(* same length holding the same bytes, zero bytes included.                *)
(***************************************************************************)
C10_RawRoundTrip ==
    origin = "packer" =>
        \A i \in 1..Len(results) :
            (Answered(i) /\ sent[i].v.k \in {"data", "string"}) =>
                /\ ~results[i].thrown
                /\ results[i].obj.type = "RAW"
                /\ results[i].obj.size = Len(sent[i].v.bytes)
                /\ results[i].obj.val = sent[i].v.bytes

(***************************************************************************)
(* C11.  Type-checked accessor: getAs<t>() on an Object throws             *)
(* std::bad_cast when t is not the Object's type and gives the Object's    *)
(* stored payload when it is; the type of an Object the application holds  *)
(* is, at every later moment, the type it was returned with.               *)
(***************************************************************************)
C11_AccessChecked ==
    access.via = "getAs" =>
        /\ access.obj \in NodesOf(results[access.idx].obj)
        /\ (access.want # access.obj.type) => access.threw = "bad_cast"
        /\ (access.want = access.obj.type) =>
               /\ access.threw = ""
               /\ access.ref.type = access.want
               /\ access.ref.val = access.obj.val
               /\ access.ref.size = access.obj.size
               /\ access.ref.kids = access.obj.kids
               /\ access.ref.pairs = access.obj.pairs

C11_TypeKept ==
    \A i \in 1..Len(results) :
        /\ results[i].obj # NullObj => results[i].obj.type \in ObjectTypes
        /\ results'[i].obj.type = results[i].obj.type

C11_TypeCheckedAccessor == []C11_AccessChecked /\ [][C11_TypeKept]_vars

\* getAs<USHORT>() on the USHORT Object decoded from CD 00 05 gave its
\* payload
C11_Witness ==
    /\ access.via = "getAs"
    /\ access.obj.type = "USHORT"
    /\ access.want = "USHORT"
    /\ access.threw = ""
    /\ access.ref = access.obj
    /\ stream = <<205, 0, 5>>

(***************************************************************************)
(* C12.  Big-endian payloads: the 2/4/8-byte field the Packer writes after *)
(* a tag (the payload of uint16/32/64 and int16/32/64, the length or count *)
(* of raw16/32, array16/32, map16/32) is most significant byte first on    *)
(* every host; pack(256) gives CD 01 00.                                   *)
(***************************************************************************)
\* the width of the field that follows tag byte t (0: none of these tags)
C12_FieldWidth(t) ==
    CASE t \in {205, 209, 218, 220, 222} -> 2
      [] t \in {206, 210, 219, 221, 223} -> 4
      [] t \in {207, 211} -> 8
      [] OTHER -> 0

\* the number the field of packed value v carries, as a long
C12_FieldValue(v) ==
    CASE v.k = "long" -> v.num
      [] v.k \in {"data", "string"} -> Long(Len(v.bytes))
      [] OTHER -> Long(Distance(v))

C12_BigEndianPayloads ==
    origin = "packer" =>
        \A i \in 1..Len(sent) :
            LET e == Encoding(i)
                w == C12_FieldWidth(e[1])
            IN  /\ w > 0 =>
                      SubSeq(e, 2, 1 + w)
                      = Reverse(Resize(C12_FieldValue(sent[i].v), w, TRUE))
                /\ sent[i].v = AppLong(Long(256)) => e = <<205, 1, 0>>

(***************************************************************************)
(* C13.  Three-tier length prefix: a raw of n bytes starts with A0 | n for *)
(* n <= 31, DA + 2-byte length for n <= 65535, DB + 4-byte length above; a *)
(* sequence of n elements with 90 | n for n <= 15, DC + 2 bytes, DD + 4    *)
(* bytes; an association of n pairs with 80 | n, DE + 2 bytes, DF + 4      *)
(* bytes.  Then come exactly the n bytes, the n encoded elements, the n    *)
(* key-then-value pairs, in iteration order.  pack("") = A0; three zero    *)
(* integers give 93 00 00 00.                                              *)
(***************************************************************************)
\* the one-byte base, the 16-bit tag, the 32-bit tag and the largest count
\* of the one-byte form, for a raw, a sequence, an association
C13_Tier(k) ==
    CASE k = "array" -> [fix |-> 144, t16 |-> 220, t32 |-> 221, max |-> 15]
      [] k = "map" -> [fix |-> 128, t16 |-> 222, t32 |-> 223, max |-> 15]
      [] OTHER -> [fix |-> 160, t16 |-> 218, t32 |-> 219, max |-> 31]

\* the length of the header for count n
C13_HeaderLen(k, n) ==
    IF n <= C13_Tier(k).max THEN 1 ELSE IF n <= 65535 THEN 3 ELSE 5

\* bytes e start with the header the table gives for count n
C13_HeaderFits(k, n, e) ==
    LET t == C13_Tier(k)
        field(w) == SubSeq(e, 2, 1 + w)
    IN  IF n <= t.max THEN e[1] = t.fix + n
        ELSE IF n <= 65535
        THEN e[1] = t.t16 /\ field(2) \in {Word(n, 2), Reverse(Word(n, 2))}
        ELSE e[1] = t.t32 /\ field(4) \in {Word(n, 4), Reverse(Word(n, 4))}

\* one element of a sequence, or the key and then the value of one pair
C13_One(x) ==
    IF x.k = "pair"
    THEN PackValue(x.elems[1], hostBig) \o PackValue(x.elems[2], hostBig)
    ELSE PackValue(x, hostBig)

RECURSIVE C13_Body(_, _)
C13_Body(es, i) ==
    IF i > Len(es) THEN <<>> ELSE C13_One(es[i]) \o C13_Body(es, i + 1)

\* the raw buffers the claim is about: pack(data, length), and a
\* std::string whose bytes are all non-zero (C10 settles the others)
C13_IsRaw(v) ==
    \/ v.k = "data"
    \/ v.k = "string" /\ \A j \in 1..Len(v.bytes) : v.bytes[j] # 0

C13_LengthPrefix ==
    origin = "packer" =>
        \A i \in 1..Len(sent) :
            LET v == sent[i].v
                e == Encoding(i)
            IN  /\ C13_IsRaw(v) =>
                      LET n == Len(v.bytes)
                      IN  /\ Len(e) = C13_HeaderLen("raw", n) + n
                          /\ C13_HeaderFits("raw", n, e)
                          /\ SubSeq(e, C13_HeaderLen("raw", n) + 1, Len(e))
                             = v.bytes
                          /\ n = 0 => e = <<160>>
                /\ v.k \in {"array", "map"} =>
                      LET n == Distance(v)
                          body == C13_Body(v.elems, 1)
                          h == C13_HeaderLen(v.k, n)
                      IN  /\ Len(e) = h + v.rep * Len(body)
                          /\ C13_HeaderFits(v.k, n, e)
                          /\ SubSeq(e, h + 1, Len(e)) = RepeatSeq(body, v.rep)
                /\ v = AppArray(Filled(3, AppLong(Long(0)))) =>
                      e = <<147, 0, 0, 0>>

\* a stream that holds a buffer of 32 bytes as raw16
C13_Witness ==
    /\ origin = "packer"
    /\ Len(sent) = 1
    /\ sent[1].v.k = "data"
    /\ Len(sent[1].v.bytes) = 32
    /\ stream[1] = 218
    /\ Len(stream) = 35

(***************************************************************************)
(* C14.  Typed stream-operator round-trip: after packer << v with v of     *)
(* scalar type T, unpacker >> out with out of type T completes without     *)
(* throwing and leaves out equal to v, for 0, min(T), max(T) and whatever  *)
(* width the Packer chose.                                                 *)
(***************************************************************************)
C14_StreamRoundTrip ==
    (origin = "packer" /\ access.via = "stream") =>
        /\ access.threw = ""
        /\ access.out = sent[access.idx].v.num

(***************************************************************************)
(* C15.  Decode is width-agnostic: for each fixed-width integer tag        *)
(* (CC..CF, D0..D3) and each payload of its width, unpack returns an       *)
(* Object that stores the integer the payload bytes denote (most           *)
(* significant byte first, two's complement for D0..D3), also when the     *)
(* value would fit a narrower form: 5 carried as uint16, uint32, uint64,   *)
(* int16, int32 or int64 decodes to 5.                                     *)
(***************************************************************************)
\* the integer the payload of call r denotes, as a 9-byte word
C15_Denoted(r) ==
    Resize(Reverse(SubSeq(stream, r.from + 2, r.to)), 9, r.header >= 208)

C15_WidthAgnostic ==
    origin = "wire" =>
        \A i \in 1..Len(results) :
            LET r == results[i]
            IN  (r.header \in 204..211 /\ ~r.thrown) =>
                    /\ IsInteger(r.obj)
                    /\ r.to = r.from + 1 + C3_Payload(r.kind)
                    /\ NumberOf(r.obj) = C15_Denoted(r)

(***************************************************************************)
(* C16.  Exclusive tree ownership: in the tree a successful unpack call    *)
(* returns, every Object and raw buffer is referenced exactly once (by its *)
(* parent, or by the pointer handed to the caller), no block belongs to    *)
(* two results, and deleting the root releases every block of the tree     *)
(* exactly once.                                                           *)
(***************************************************************************)
RECURSIVE C16_Base(_)
\* the blocks allocated by the calls before the i-th
C16_Base(i) == IF i = 1 THEN 0 ELSE C16_Base(i - 1) + results[i - 1].live

\* the tree of the i-th call, laid out on the heap
C16_Tree(i) == Alloc(results[i].obj, C16_Base(i))

\* the blocks of the i-th call as a function of their addresses
C16_Heap(i) ==
    [a \in (C16_Base(i) + 1)..(C16_Base(i) + Len(C16_Tree(i).blocks)) |->
        C16_Tree(i).blocks[a - C16_Base(i)]]

\* how many pointers to address a the tree of the i-th call holds
C16_Refs(i, a) ==
    Cardinality(UNION {{<<b, j>> : j \in {k \in 1..Len(C16_Heap(i)[b].refs) :
                                              C16_Heap(i)[b].refs[k] = a}} :
                       b \in DOMAIN C16_Heap(i)})

\* how often address a occurs in sequence q
C16_Count(q, a) == Cardinality({j \in 1..Len(q) : q[j] = a})

C16_ExclusiveOwnership ==
    \A i \in 1..Len(results) :
        (~results[i].thrown /\ results[i].obj # NullObj) =>
            LET t == C16_Tree(i)
                heap == C16_Heap(i)
            IN  /\ Len(t.blocks) = results[i].live
                /\ \A a \in DOMAIN heap :
                      C16_Refs(i, a) + (IF a = t.root THEN 1 ELSE 0) = 1
                /\ \A b \in DOMAIN heap :
                      \A j \in 1..Len(heap[b].refs) :
                          heap[b].refs[j] = 0 \/ heap[b].refs[j] \in DOMAIN heap
                /\ i \in deleted =>
                      LET rel == Released(t.root, heap)
                      IN  /\ Len(rel) = Len(t.blocks)
                          /\ \A a \in DOMAIN heap : C16_Count(rel, a) = 1

\* the tree of the map {"k": [1, nil]}, six blocks, has been deleted
C16_Witness ==
    /\ stream = <<129, 161, 107, 146, 1, 192>>
    /\ Len(results) >= 1
    /\ results[1].obj.type = "MAP"
    /\ results[1].live = 6
    /\ 1 \in deleted

(***************************************************************************)
(* C17.  Fixnum type mapping: every single-byte fixnum header, positive    *)
(* (00..7F) or negative (E0..FF), decodes to an Object of type CHAR, so    *)
(* getAs<CHAR>() on the Object succeeds.                                   *)
(***************************************************************************)
C17_IsFixnum(r) == ~r.thrown /\ r.header \in (0..127) \cup (224..255)

C17_FixnumIsChar ==
    /\ \A i \in 1..Len(results) :
          C17_IsFixnum(results[i]) =>
              /\ GetType(results[i].obj) = "CHAR"
              /\ GetAs(results[i].obj, "CHAR").threw = ""
    /\ (/\ access.via = "getAs"
        /\ access.want = "CHAR"
        /\ C17_IsFixnum(results[access.idx])
        /\ access.obj = results[access.idx].obj) => access.threw = ""

(***************************************************************************)
(* C18.  Decode terminates on every finite input: whatever counts and      *)
(* lengths the headers declare and whatever the nesting, a call of         *)
(* unpack() ends, by returning or by throwing unpack_exception, after      *)
(* reading at most all bytes of the stream; every step of the call either  *)
(* consumes at least one byte or ends the call.                            *)
(***************************************************************************)
\* the call never reads past the end of the stream, and a pending call has
\* a loop or the caller waiting for it
C18_WithinStream ==
    /\ rpos <= Len(stream)
    /\ dstate \in {"idle", "running", "returned", "thrown"}
    /\ (dstate = "running") = (frames # <<>>)
    /\ \A k \in 1..Len(frames) : frames[k].left >= 1

\* a step of a running call consumes a byte or ends the call
C18_Progress ==
    dstate = "running" =>
        /\ rpos' >= rpos
        /\ rpos' > rpos \/ dstate' \in {"returned", "thrown"}

C18_DecodeTerminates ==
    /\ []C18_WithinStream
    /\ [][C18_Progress]_vars
    /\ (dstate = "running") ~> (dstate \in {"returned", "thrown"})

\* a raw32 header that declares 2139062143 bytes before two: the call has
\* read both and ended with unpack_exception
C18_Witness ==
    /\ stream = <<219, 127, 127, 127, 127, 1, 2>>
    /\ dstate = "thrown"
    /\ rpos = Len(stream)
    /\ frames = <<>>

====
